---- MODULE Spec2Model ----
(***************************************************************************)
(* Model of salt/auth/pam.py: the public authenticate() entry point, which *)
(* re-executes the module in a worker subprocess, the worker's __main__    *)
(* block, the in-process PAM bridge _authenticate() and its conversation   *)
(* callback my_conv().                                                     *)
(*                                                                         *)
(* libpam, the kernel and the file system are the environment: the status  *)
(* of every native call, the prompts of every conversation round, the      *)
(* death of a worker and the state of the interpreter paths are chosen     *)
(* nondeterministically.                                                   *)
(***************************************************************************)
EXTENDS Integers, Sequences, FiniteSets, TLC

VARIABLES
    opts,      \* __opts__: the loaded configuration
    fs,        \* the file system: kind of every interpreter path
    environ,   \* os.environ of the calling process
    ncalls,    \* number of authenticate() calls started so far
    call,      \* per caller: the frame of its authenticate() call
    proc,      \* per caller: the worker subprocess of its current call
    log        \* per caller: records its current call handed to log.error

vars == <<opts, fs, environ, ncalls, call, proc, log>>

----------------------------------------------------------------------------
(* Bounds *)

NumCallers == 2     \* callers of authenticate()
MaxCalls == 2       \* authenticate() calls started in one behaviour
MaxRounds == 1      \* conversation rounds in one transaction (Spec)
MaxPrompts == 1     \* prompts in one conversation round (Spec)
ConvRounds == 2     \* conversation rounds in one transaction (SpecConv)
ConvPrompts == 3    \* prompts in one conversation round (SpecConv)

Callers == 1..NumCallers

----------------------------------------------------------------------------
(* Program constants *)

PAM_PROMPT_ECHO_OFF == 1
PAM_PROMPT_ECHO_ON == 2
PAM_ERROR_MSG == 3
PAM_TEXT_INFO == 4

Styles == {PAM_PROMPT_ECHO_OFF, PAM_PROMPT_ECHO_ON, PAM_ERROR_MSG, PAM_TEXT_INFO}

\* Statuses libpam can hand back (0 is success, the others are PAM_SYSTEM_ERR,
\* PAM_AUTH_ERR, PAM_ACCT_EXPIRED, PAM_ABORT of security/_pam_types.h).
StartStatuses == {0, 4, 26}
AuthStatuses == {0, 7}
AcctStatuses == {0, 13}

\* Exit statuses of a worker that did not end through sys.exit: the
\* interpreter's own failure, a wrapper's 128+9, and Popen's -9 for SIGKILL.
AbnormalStatuses == {2, 137, -9}

None == "None"           \* an unset configuration value
NULL == <<>>             \* the null pointer

Usernames == {"alice", "bob"}
Passwords == {"correct-horse", "short"}

SystemEncoding == "utf-8"       \* __salt_system_encoding__
DefaultService == "login"
SysPython == "/usr/bin/python3"
SysPythonTarget == "/usr/bin/python3.11"
SysExecutable == "/opt/saltstack/salt/bin/python3.10"   \* sys.executable
OverridePython == "/opt/pam/bin/python3"
PyFile == "/opt/saltstack/salt/auth/pam.py"              \* __file__

Paths == {SysPython, SysPythonTarget, SysExecutable, OverridePython}

----------------------------------------------------------------------------
(* The calling process: authenticate() *)

\* dict.get(key, default) on __opts__, a function from the keys that are set.
OptsGet(key, default) == IF key \in DOMAIN opts THEN opts[key] ELSE default

\* Python truthiness of a configuration value.
Truthy(v) == v \notin {None, ""}

\* pathlib.Path.resolve(): symbolic links are followed, also to a missing target.
Resolve(p) == IF fs[p] = "link" THEN SysPythonTarget ELSE p

\* An existence test that is never negative.
ExistsAlways(p) == TRUE

\* os.path.exists() / Path.exists(): follows links, false for a dangling one.
Exists(p) == fs[Resolve(p)] \in {"file", "noexec"}

\* Whether execve() of the path succeeds.
Executable(p) == fs[Resolve(p)] = "file"

\* A lookup that prefers the system python3 to the configured override.
FindPyexeSystemFirst ==
    IF Exists(SysPython) THEN SysPython
    ELSE IF Truthy(OptsGet("auth.pam.python", None))
    THEN OptsGet("auth.pam.python", None)
    ELSE SysExecutable

\* __find_pyexe(): configured override, else the system python3, else sys.executable.
FindPyexe ==
    IF Truthy(OptsGet("auth.pam.python", None))
    THEN OptsGet("auth.pam.python", None)
    ELSE IF Exists(SysPython) THEN SysPython ELSE SysExecutable

\* An envelope that always names the default service.
BuildEnvDefaultService(username, password) ==
    ( "SALT_PAM_USERNAME" :> username
   @@ "SALT_PAM_PASSWORD" :> password
   @@ "SALT_PAM_SERVICE"  :> DefaultService
   @@ "SALT_PAM_ENCODING" :> SystemEncoding ) @@ environ

\* env = os.environ.copy() followed by the four assignments.
BuildEnv(username, password) ==
    ( "SALT_PAM_USERNAME" :> username
   @@ "SALT_PAM_PASSWORD" :> password
   @@ "SALT_PAM_SERVICE"  :> OptsGet("auth.pam.service", DefaultService)
   @@ "SALT_PAM_ENCODING" :> SystemEncoding ) @@ environ

\* An argument list that carries the credentials after the module path.
BuildArgvWithCredentials(pyexe, pyfile, env) ==
    <<pyexe, pyfile, env["SALT_PAM_USERNAME"], env["SALT_PAM_PASSWORD"]>>

\* The argument list handed to subprocess.run.
BuildArgv(pyexe, pyfile, env) == <<pyexe, pyfile>>

\* A mapping that only treats exit status 1 as a failure.
ExitToBoolNotOne(returncode) == returncode # 1

\* The mapping of the worker's exit status to the returned boolean.
ExitToBool(returncode) == returncode = 0

\* The records handed to log.error.
LogNoPython(pyexe) ==
    [msg |-> "Error 'auth.pam.python' config value does not exist: %s",
     args |-> <<pyexe>>]
LogAuthFailed(username, stdout, stderr) ==
    [msg |-> "Pam auth failed for %s: %s %s", args |-> <<username, stdout, stderr>>]

NoBytes == [bytes |-> "", encoding |-> ""]
NoArgs == [username |-> NoBytes, password |-> NoBytes, service |-> NoBytes]
NoConv == [n_messages |-> 0, messages |-> <<>>, p_response |-> NULL, retval |-> 0]

\* No worker process.
NoProc ==
    [pc |-> "none", argv |-> <<>>, env |-> <<>>, args |-> NoArgs, trace |-> <<>>,
     result |-> FALSE, returncode |-> -1, stdout |-> "", stderr |-> "",
     round |-> 0, conv |-> NoConv, heap |-> <<>>]

\* A freshly spawned worker: its argument list and its environment.
NewProc(argv, env) == [NoProc EXCEPT !.pc = "boot", !.argv = argv, !.env = env]

\* A caller that is not inside authenticate().
IdleCall ==
    [pc |-> "idle", username |-> "", password |-> "", pyexe |-> "", ret |-> FALSE,
     spawns |-> 0]

\* An authenticate() that writes the envelope into os.environ itself.
EnvironAliased(username, password) == BuildEnv(username, password)

\* os.environ after authenticate() built the worker's environment: the four
\* assignments went to the copy, os.environ keeps its content.
EnvironAfter(username, password) == environ

\* authenticate(username, password) up to the point where it blocks in
\* subprocess.run, returns False for a missing interpreter, or raises because
\* the interpreter exists but cannot be executed.
Authenticate(c, username, password) ==
    /\ call[c].pc = "idle"
    /\ ncalls < MaxCalls
    /\ ncalls' = ncalls + 1
    /\ LET env == BuildEnv(username, password)
           pyexe == Resolve(FindPyexe)
           pyfile == PyFile
           frame == [IdleCall EXCEPT !.username = username, !.password = password,
                                     !.pyexe = pyexe]
       IN  IF ~Exists(pyexe)
           THEN /\ log' = [log EXCEPT ![c] = Append(@, LogNoPython(pyexe))]
                /\ call' = [call EXCEPT ![c] = [frame EXCEPT !.pc = "returned", !.ret = FALSE]]
                /\ proc' = proc
           ELSE IF ~Executable(pyexe)
           THEN /\ call' = [call EXCEPT ![c] = [frame EXCEPT !.pc = "raised", !.spawns = 1]]
                /\ UNCHANGED <<proc, log>>
           ELSE /\ call' = [call EXCEPT ![c] = [frame EXCEPT !.pc = "waiting", !.spawns = 1]]
                /\ proc' = [proc EXCEPT ![c] = NewProc(BuildArgv(pyexe, pyfile, env), env)]
                /\ log' = log
    /\ environ' = EnvironAfter(username, password)
    /\ UNCHANGED <<opts, fs>>

\* An authenticate() that runs the worker a second time when it failed.
AfterRunRetry(frame, worker) ==
    IF worker.returncode # 0 /\ frame.spawns < 2
    THEN [frame |-> [frame EXCEPT !.spawns = @ + 1],
          worker |-> NewProc(worker.argv, worker.env)]
    ELSE [frame |-> [frame EXCEPT !.pc = "returned",
                                  !.ret = ExitToBool(worker.returncode)],
          worker |-> worker]

\* An authenticate() that reads the exit status from a slot every call shares:
\* it sees the status of whichever worker has exited.
AfterRunAnyWorker(frame, worker) ==
    LET done == {d \in Callers : proc[d].pc = "exited"}
        seen == CHOOSE d \in done : \A e \in done : d <= e
    IN  [frame |-> [frame EXCEPT !.pc = "returned",
                                 !.ret = ExitToBool(proc[seen].returncode)],
         worker |-> worker]

\* authenticate() once subprocess.run has handed back the completed worker:
\* the exit status is mapped to the boolean, and nothing is spawned again.
AfterRun(frame, worker) ==
    [frame |-> [frame EXCEPT !.pc = "returned", !.ret = ExitToBool(worker.returncode)],
     worker |-> worker]

\* A failure record that names the password instead of the username.
FailureRecordWithPassword(frame, worker) ==
    LogAuthFailed(frame.password, worker.stdout, worker.stderr)

\* The record authenticate() logs for a worker that exited nonzero: the
\* username and the captured standard output and standard error.
FailureRecord(frame, worker) ==
    LogAuthFailed(frame.username, worker.stdout, worker.stderr)

\* A subprocess.run that gives up on a worker that does not answer.
RunCompletedOrTimeout(worker) == worker.pc \in {"exited", "hung"}

\* subprocess.run is called without a timeout: it completes when, and only
\* when, the worker has exited.
RunCompleted(worker) == worker.pc = "exited"

\* subprocess.run returns when the worker has exited.
AuthenticateReturn(c) ==
    /\ call[c].pc = "waiting"
    /\ RunCompleted(proc[c])
    /\ LET r == AfterRun(call[c], proc[c])
       IN  /\ call' = [call EXCEPT ![c] = r.frame]
           /\ proc' = [proc EXCEPT ![c] = r.worker]
           /\ log' = IF r.frame.pc = "returned" /\ ~r.frame.ret
                     THEN [log EXCEPT ![c] = Append(@, FailureRecord(call[c], proc[c]))]
                     ELSE log
    /\ UNCHANGED <<opts, fs, environ, ncalls>>

\* auth(): the result is handed to the framework; the frame, the reaped worker
\* and the call's records are gone.
AuthDone(c) ==
    /\ call[c].pc \in {"returned", "raised"}
    /\ call' = [call EXCEPT ![c] = IdleCall]
    /\ proc' = [proc EXCEPT ![c] = NoProc]
    /\ log' = [log EXCEPT ![c] = <<>>]
    /\ UNCHANGED <<opts, fs, environ, ncalls>>

----------------------------------------------------------------------------
(* The worker process: __main__, _authenticate() and my_conv() *)

\* str.encode(encoding): the bytes of a string in an encoding.
Encode(s, encoding) == [bytes |-> s, encoding |-> encoding]

\* One native call of the transaction: the status it returned or, for
\* pam_end, the status it was passed.
NativeCall(fn, status) == [fn |-> fn, status |-> status]

\* The arguments of _authenticate as __main__ reads them from os.environ,
\* each encoded when it is a str (which every environment value is).
MainArgs(env) ==
    [username |-> Encode(env["SALT_PAM_USERNAME"], env["SALT_PAM_ENCODING"]),
     password |-> Encode(env["SALT_PAM_PASSWORD"], env["SALT_PAM_ENCODING"]),
     service  |-> Encode(env["SALT_PAM_SERVICE"], env["SALT_PAM_ENCODING"])]

\* A duplicate kept in one buffer per round, shared by every slot.
StrdupShared(round, i) == <<round, 1>>

\* CALLOC(n_messages, sizeof(PamResponse)): a fresh block, distinct from every
\* block allocated before, holding n_messages zeroed PamResponse cells.
Calloc(round) == <<round, 0>>
ZeroResponse == [resp |-> NULL, resp_retcode |-> 0]

\* STRDUP(password): a fresh block holding a copy of the bytes.
Strdup(round, i) == <<round, i + 1>>

ArrayBlock(cells) == [kind |-> "array", cells |-> cells, data |-> NoBytes]
BufBlock(data) == [kind |-> "buf", cells |-> <<>>, data |-> data]

\* A callback that answers every prompt asking for input, echoed or not.
ConvCellAnyInput(round, messages, i) ==
    IF messages[i] \in {PAM_PROMPT_ECHO_OFF, PAM_PROMPT_ECHO_ON}
    THEN [resp |-> Strdup(round, i), resp_retcode |-> 0]
    ELSE ZeroResponse

\* The PamResponse cell my_conv leaves at index i of the response array.
ConvCell(round, messages, i) ==
    IF messages[i] = PAM_PROMPT_ECHO_OFF
    THEN [resp |-> Strdup(round, i), resp_retcode |-> 0]
    ELSE ZeroResponse

\* A callback that allocates a single response whatever the round's size.
ConvSizeOne(n_messages) == 1

\* The number of cells my_conv allocates for a round of n_messages prompts.
ConvSize(n_messages) == n_messages

\* A callback that reports a conversation error for a round it left unanswered.
ConvRetvalUnanswered(n_messages, answered) ==
    IF n_messages > 0 /\ answered = {} THEN 19 ELSE 0

\* The status my_conv returns for a round, given the indices it answered.
ConvRetval(n_messages, answered) == 0

\* my_conv(n_messages, messages, p_response, app_data): what the callback
\* leaves behind; messages and the response array are indexed from 0.
MyConv(password, round, n_messages, messages) ==
    LET addr == Calloc(round)
        cells == [i \in 0..(ConvSize(n_messages) - 1) |->
                     IF i < n_messages THEN ConvCell(round, messages, i)
                     ELSE ZeroResponse]
        dups == {i \in 0..(n_messages - 1) : ConvCell(round, messages, i).resp # NULL}
    IN  [conv |-> [n_messages |-> n_messages, messages |-> messages,
                   p_response |-> addr, retval |-> ConvRetval(n_messages, dups)],
         heap |-> (addr :> ArrayBlock(cells))
                  @@ [a \in {Strdup(round, i) : i \in dups} |-> BufBlock(password)]]

\* The prompt arrays of at most max prompts libpam can hand to the callback.
MessageArrays(max) == UNION {[0..(n - 1) -> Styles] : n \in 0..max}

\* A bridge that returns False on a start failure without ending the handle.
AfterStartNoEnd(p, retval) ==
    IF retval # 0
    THEN [p EXCEPT !.trace = <<NativeCall("pam_start", retval)>>,
                   !.result = FALSE, !.pc = "finished"]
    ELSE [p EXCEPT !.trace = <<NativeCall("pam_start", retval)>>, !.pc = "auth"]

\* _authenticate after PAM_START returned retval: on failure the handle is
\* ended with that status and False is returned.
AfterStart(p, retval) ==
    IF retval # 0
    THEN [p EXCEPT !.trace = <<NativeCall("pam_start", retval),
                               NativeCall("pam_end", retval)>>,
                   !.result = FALSE, !.pc = "finished"]
    ELSE [p EXCEPT !.trace = <<NativeCall("pam_start", retval)>>, !.pc = "auth"]

\* A bridge that goes on to account management whatever pam_authenticate answered.
AfterAuthenticateAlwaysAcct(p, retval) ==
    [p EXCEPT !.trace = Append(@, NativeCall("pam_authenticate", retval)),
              !.pc = "acct"]

\* A bridge that ends the handle with the status of the failed step.
AfterAuthenticateEndRetval(p, retval) ==
    IF retval = 0
    THEN [p EXCEPT !.trace = Append(@, NativeCall("pam_authenticate", retval)),
                   !.pc = "acct"]
    ELSE [p EXCEPT !.trace = @ \o <<NativeCall("pam_authenticate", retval),
                                    NativeCall("pam_end", retval)>>,
                   !.result = (retval = 0), !.pc = "finished"]

\* _authenticate after PAM_AUTHENTICATE returned retval.
AfterAuthenticate(p, retval) ==
    IF retval = 0
    THEN [p EXCEPT !.trace = Append(@, NativeCall("pam_authenticate", retval)),
                   !.pc = "acct"]
    ELSE [p EXCEPT !.trace = @ \o <<NativeCall("pam_authenticate", retval),
                                    NativeCall("pam_end", 0)>>,
                   !.result = (retval = 0), !.pc = "finished"]

\* A bridge that reports the authenticate step alone, whatever account
\* management answered.
AfterAcctMgmtIgnored(p, retval) ==
    [p EXCEPT !.trace = @ \o <<NativeCall("pam_acct_mgmt", retval),
                               NativeCall("pam_end", 0)>>,
              !.result = TRUE, !.pc = "finished"]

\* _authenticate after PAM_ACCT_MGMT returned retval.
AfterAcctMgmt(p, retval) ==
    [p EXCEPT !.trace = @ \o <<NativeCall("pam_acct_mgmt", retval),
                               NativeCall("pam_end", 0)>>,
              !.result = (retval = 0), !.pc = "finished"]

\* sys.exit(_authenticate(...)): the boolean itself as the exit status.
ExitCodeOfBool(result) == IF result THEN 1 ELSE 0

\* sys.exit(0) when _authenticate returned True, sys.exit(1) otherwise.
ExitCode(result) == IF result THEN 0 ELSE 1

\* The worker has ended: its memory is reclaimed with it.
Exited(p, returncode, stderr) ==
    [p EXCEPT !.pc = "exited", !.returncode = returncode, !.stderr = stderr,
              !.conv = NoConv, !.heap = <<>>]

\* __main__ reads the envelope, _authenticate encodes it and calls PAM_START.
WorkerStart(c, retval) ==
    /\ proc[c].pc = "boot"
    /\ proc' = [proc EXCEPT ![c] =
                   AfterStart([@ EXCEPT !.args = MainArgs(proc[c].env)], retval)]
    /\ UNCHANGED <<opts, fs, environ, ncalls, call, log>>

\* The worker's interpreter found no libpam (HAS_PAM is False, PAM_START is
\* undefined): the NameError ends the worker with a traceback and status 1.
WorkerNoPam(c) ==
    /\ proc[c].pc = "boot"
    /\ proc' = [proc EXCEPT ![c] = Exited(@, 1, "Traceback")]
    /\ UNCHANGED <<opts, fs, environ, ncalls, call, log>>

\* libpam calls back into my_conv during pam_authenticate. The blocks of the
\* round before belong to libpam, which has released them by now.
Conversation(c, messages, limit) ==
    /\ proc[c].pc = "auth"
    /\ proc[c].round < limit
    /\ LET n_messages == Cardinality(DOMAIN messages)
           round == proc[c].round + 1
           r == MyConv(proc[c].args.password, round, n_messages, messages)
       IN  proc' = [proc EXCEPT ![c].round = round, ![c].conv = r.conv,
                                ![c].heap = r.heap]
    /\ UNCHANGED <<opts, fs, environ, ncalls, call, log>>

\* PAM_AUTHENTICATE returns; libpam has released the replies it was handed.
PamAuthenticate(c, retval) ==
    /\ proc[c].pc = "auth"
    /\ proc' = [proc EXCEPT ![c] =
                   AfterAuthenticate([@ EXCEPT !.conv = NoConv, !.heap = <<>>], retval)]
    /\ UNCHANGED <<opts, fs, environ, ncalls, call, log>>

\* PAM_ACCT_MGMT returns.
PamAcctMgmt(c, retval) ==
    /\ proc[c].pc = "acct"
    /\ proc' = [proc EXCEPT ![c] = AfterAcctMgmt(@, retval)]
    /\ UNCHANGED <<opts, fs, environ, ncalls, call, log>>

\* __main__ turns the result of _authenticate into the exit status.
WorkerExit(c) ==
    /\ proc[c].pc = "finished"
    /\ proc' = [proc EXCEPT ![c] = Exited(@, ExitCode(proc[c].result), "")]
    /\ UNCHANGED <<opts, fs, environ, ncalls, call, log>>

\* The worker dies inside a native call (killed, or the interpreter aborts).
WorkerKilled(c, status) ==
    /\ proc[c].pc \in {"auth", "acct"}
    /\ proc' = [proc EXCEPT ![c] = Exited(@, status, "")]
    /\ UNCHANGED <<opts, fs, environ, ncalls, call, log>>

\* A PAM module never returns: the worker stays inside pam_authenticate.
WorkerHang(c) ==
    /\ proc[c].pc = "auth"
    /\ proc' = [proc EXCEPT ![c].pc = "hung"]
    /\ UNCHANGED <<opts, fs, environ, ncalls, call, log>>

----------------------------------------------------------------------------
(* Specification *)

EmptyDict == [k \in {} |-> ""]

OptsStates ==
    {py @@ sv : py \in {EmptyDict, "auth.pam.python" :> "",
                        "auth.pam.python" :> OverridePython},
                sv \in {EmptyDict, "auth.pam.service" :> "sshd"}}

\* sys.executable is the running interpreter; /usr/bin/python3 may be a link
\* to a versioned interpreter; the override may exist without being runnable.
FsStates ==
    {f \in [Paths -> {"missing", "file", "noexec", "link"}] :
        /\ f[SysExecutable] = "file"
        /\ f[OverridePython] \in {"missing", "file", "noexec"}
        /\ f[SysPython] \in {"missing", "file", "link"}
        /\ f[SysPythonTarget] \in {"missing", "file"}
        /\ f[SysPython] # "link" => f[SysPythonTarget] = "missing"}

Init ==
    /\ opts \in OptsStates
    /\ fs \in FsStates
    /\ environ = ("PATH" :> "/usr/bin:/bin")
    /\ ncalls = 0
    /\ call = [c \in Callers |-> IdleCall]
    /\ proc = [c \in Callers |-> NoProc]
    /\ log = [c \in Callers |-> <<>>]

\* The module is single-threaded and synchronous: a caller enters
\* authenticate() only while no other caller is inside it.
SerialAuthenticate(c, username, password) ==
    /\ \A d \in Callers \ {c} : call[d].pc = "idle"
    /\ Authenticate(c, username, password)

Next ==
    \/ \E c \in Callers, u \in Usernames, p \in Passwords : SerialAuthenticate(c, u, p)
    \/ \E c \in Callers : AuthenticateReturn(c)
    \/ \E c \in Callers : AuthDone(c)
    \/ \E c \in Callers, s \in StartStatuses : WorkerStart(c, s)
    \/ \E c \in Callers : WorkerNoPam(c)
    \/ \E c \in Callers, m \in MessageArrays(MaxPrompts) : Conversation(c, m, MaxRounds)
    \/ \E c \in Callers, s \in AuthStatuses : PamAuthenticate(c, s)
    \/ \E c \in Callers, s \in AcctStatuses : PamAcctMgmt(c, s)
    \/ \E c \in Callers : WorkerExit(c)
    \/ \E c \in Callers, s \in AbnormalStatuses : WorkerKilled(c, s)
    \/ \E c \in Callers : WorkerHang(c)

Spec == Init /\ [][Next]_vars

\* The conversation on its own: a worker that has just entered
\* pam_authenticate, with every envelope, and rounds of up to ConvPrompts
\* prompts until pam_authenticate returns.
InitConv ==
    /\ opts \in {EmptyDict}
    /\ fs \in {f \in FsStates : f[SysPython] = "file" /\ f[OverridePython] = "missing"}
    /\ environ = ("PATH" :> "/usr/bin:/bin")
    /\ ncalls = 1
    /\ log = [c \in Callers |-> <<>>]
    /\ \E u \in Usernames, p \in Passwords :
          LET env == BuildEnv(u, p)
              argv == BuildArgv(Resolve(FindPyexe), PyFile, env)
              worker == AfterStart([NewProc(argv, env) EXCEPT !.args = MainArgs(env)], 0)
          IN  /\ call = [c \in Callers |->
                            IF c = 1
                            THEN [IdleCall EXCEPT !.pc = "waiting", !.username = u,
                                                  !.password = p, !.spawns = 1,
                                                  !.pyexe = Resolve(FindPyexe)]
                            ELSE IdleCall]
              /\ proc = [c \in Callers |-> IF c = 1 THEN worker ELSE NoProc]

NextConv ==
    \/ \E m \in MessageArrays(ConvPrompts) : Conversation(1, m, ConvRounds)
    \/ \E s \in AuthStatuses : PamAuthenticate(1, s)

SpecConv == InitConv /\ [][NextConv]_vars

\* Concurrent callers (the threads or processes of the framework that verify
\* credentials at the same time): any caller may enter authenticate() while
\* others are inside it. The interpreter is a configured override that is on
\* disk or missing; one failure status per native call and one abnormal exit
\* status are drawn (Spec draws them all); the conversation is left to SpecConv.
InitConc ==
    /\ Init
    /\ opts = "auth.pam.python" :> OverridePython
    /\ fs[SysPython] = "file"
    /\ fs[OverridePython] \in {"missing", "file"}

NextConc ==
    \/ \E c \in Callers, u \in Usernames, p \in Passwords : Authenticate(c, u, p)
    \/ \E c \in Callers : AuthenticateReturn(c)
    \/ \E c \in Callers, s \in StartStatuses \ {26} : WorkerStart(c, s)
    \/ \E c \in Callers : WorkerNoPam(c)
    \/ \E c \in Callers, s \in AuthStatuses : PamAuthenticate(c, s)
    \/ \E c \in Callers, s \in AcctStatuses : PamAcctMgmt(c, s)
    \/ \E c \in Callers : WorkerExit(c)
    \/ \E c \in Callers, s \in AbnormalStatuses \ {2, -9} : WorkerKilled(c, s)

SpecConc == InitConc /\ [][NextConc]_vars

\* The whole system with the one scheduling fact the code relies on: once the
\* worker of a call has exited, the subprocess.run that waits for it returns.
\* Nothing is assumed about the worker or libpam making progress.
InitLive ==
    /\ Init
    /\ "auth.pam.python" \notin DOMAIN opts
    /\ fs[SysPython] = "file"
    /\ fs[OverridePython] = "missing"

Fairness == \A c \in Callers : WF_vars(AuthenticateReturn(c))

SpecLive == InitLive /\ [][Next]_vars /\ Fairness

----------------------------------------------------------------------------
(* Properties *)

\* The number of pam_end calls in a trace of native calls.
Ends(trace) == Cardinality({i \in 1..Len(trace) : trace[i].fn = "pam_end"})

\* The statuses the native call fn returned in a trace.
Statuses(trace, fn) == {trace[i].status : i \in {j \in 1..Len(trace) : trace[j].fn = fn}}

\* C1: on every path of _authenticate (start failure, authenticate failure,
\* account-management failure, success) the handle has been passed to PAM_END
\* exactly once when _authenticate returns, as its last native call, and at no
\* time more than once.
C1_EndedExactlyOnce ==
    \A c \in Callers :
        /\ Ends(proc[c].trace) <= 1
        /\ proc[c].pc = "finished" =>
              /\ Ends(proc[c].trace) = 1
              /\ proc[c].trace[Len(proc[c].trace)].fn = "pam_end"

\* _authenticate has returned after a start failure, with the handle ended once.
C1_Witness ==
    \E c \in Callers :
        /\ proc[c].pc = "finished"
        /\ proc[c].trace[1].status # 0
        /\ Ends(proc[c].trace) = 1

\* C2: _authenticate returns True exactly when pam_start, pam_authenticate and
\* pam_acct_mgmt were all called and all returned 0.
C2_TrueIffAllSucceed ==
    \A c \in Callers :
        proc[c].pc = "finished" =>
            (proc[c].result <=>
                \A fn \in {"pam_start", "pam_authenticate", "pam_acct_mgmt"} :
                    Statuses(proc[c].trace, fn) = {0})

\* _authenticate has returned False because account management alone failed.
C2_Witness ==
    \E c \in Callers :
        /\ proc[c].pc = "finished"
        /\ ~proc[c].result
        /\ Statuses(proc[c].trace, "pam_authenticate") = {0}
        /\ Statuses(proc[c].trace, "pam_acct_mgmt") = {13}

\* C3: when a worker was spawned and authenticate has returned, it returned
\* True for exit status 0 and False for every other exit status.
C3_ZeroExitOnly ==
    \A c \in Callers :
        (call[c].pc = "returned" /\ proc[c].pc = "exited") =>
            (call[c].ret <=> proc[c].returncode = 0)

\* authenticate has returned False for a worker that ended with status 137.
C3_Witness ==
    \E c \in Callers :
        /\ call[c].pc = "returned"
        /\ proc[c].pc = "exited"
        /\ proc[c].returncode = 137
        /\ ~call[c].ret

\* C4: when the resolved interpreter path is not on disk, authenticate has
\* returned False without calling subprocess.run and no worker exists.
C4_MissingInterpreter ==
    \A c \in Callers :
        (call[c].pc # "idle" /\ fs[call[c].pyexe] = "missing") =>
            /\ call[c].pc = "returned"
            /\ ~call[c].ret
            /\ call[c].spawns = 0
            /\ proc[c].pc = "none"

\* authenticate has returned for a configured override that is not on disk.
C4_Witness ==
    \E c \in Callers :
        /\ call[c].pc = "returned"
        /\ call[c].pyexe = OverridePython
        /\ fs[OverridePython] = "missing"
        /\ call[c].spawns = 0

\* The elements of an argument list.
ArgSet(argv) == {argv[i] : i \in 1..Len(argv)}

\* C5: the argument list of every spawned worker is the interpreter path
\* followed by the module path; the password, the username, the service and
\* the encoding are not among its elements, and the password is in the
\* worker's environment.
C5_CredentialsNotInArgv ==
    \A c \in Callers :
        proc[c].pc # "none" =>
            /\ proc[c].argv = <<call[c].pyexe, PyFile>>
            /\ ArgSet(proc[c].argv) \cap
                   {call[c].password, call[c].username, SystemEncoding,
                    proc[c].env["SALT_PAM_SERVICE"]} = {}
            /\ proc[c].env["SALT_PAM_PASSWORD"] = call[c].password

\* A worker has been spawned with the password in its environment.
C5_Witness ==
    \E c \in Callers :
        /\ proc[c].pc = "boot"
        /\ call[c].password = "correct-horse"
        /\ proc[c].env["SALT_PAM_PASSWORD"] = "correct-horse"
        /\ Len(proc[c].argv) = 2

\* C6: after every conversation round the response array my_conv stored in
\* p_response has one cell for each of the n_messages prompts it was given,
\* indexed like them, also for an empty round.
C6_ResponsePerPrompt ==
    \A c \in Callers :
        (proc[c].pc = "auth" /\ proc[c].round > 0) =>
            LET conv == proc[c].conv
            IN  /\ conv.n_messages = Cardinality(DOMAIN conv.messages)
                /\ conv.p_response \in DOMAIN proc[c].heap
                /\ proc[c].heap[conv.p_response].kind = "array"
                /\ DOMAIN proc[c].heap[conv.p_response].cells = 0..(conv.n_messages - 1)

\* A second round of three prompts has been answered with three cells.
C6_Witness ==
    \E c \in Callers :
        /\ proc[c].pc = "auth"
        /\ proc[c].round = 2
        /\ proc[c].conv.n_messages = 3
        /\ Cardinality(DOMAIN proc[c].heap[proc[c].conv.p_response].cells) = 3

\* C7: after every conversation round, cell i of the response array holds a
\* pointer to a buffer with the encoded password and status 0 when prompt i
\* has style PAM_PROMPT_ECHO_OFF, and the null pointer and status 0 when it
\* has any other style.
C7_OnlyMaskedAnswered ==
    \A c \in Callers :
        (proc[c].pc = "auth" /\ proc[c].round > 0) =>
            LET conv == proc[c].conv
                heap == proc[c].heap
                cells == heap[conv.p_response].cells
            IN  \A i \in DOMAIN conv.messages :
                    /\ i \in DOMAIN cells
                    /\ cells[i].resp_retcode = 0
                    /\ IF conv.messages[i] = PAM_PROMPT_ECHO_OFF
                       THEN /\ cells[i].resp # NULL
                            /\ cells[i].resp \in DOMAIN heap
                            /\ heap[cells[i].resp].kind = "buf"
                            /\ heap[cells[i].resp].data =
                                   Encode(call[c].password, SystemEncoding)
                       ELSE cells[i].resp = NULL

\* The round [mask-input, echo-input, error-text] has been answered: only
\* index 0 is populated.
C7_Witness ==
    \E c \in Callers :
        /\ proc[c].pc = "auth"
        /\ proc[c].round > 0
        /\ proc[c].conv.messages = (0 :> PAM_PROMPT_ECHO_OFF @@ 1 :> PAM_PROMPT_ECHO_ON
                                    @@ 2 :> PAM_ERROR_MSG)
        /\ LET cells == proc[c].heap[proc[c].conv.p_response].cells
           IN  /\ cells[0].resp # NULL
               /\ cells[1].resp = NULL
               /\ cells[2].resp = NULL

\* The arguments _authenticate is meant to receive for a call of authenticate.
ExpectedArgs(frame) ==
    [username |-> Encode(frame.username, SystemEncoding),
     password |-> Encode(frame.password, SystemEncoding),
     service  |-> Encode(IF "auth.pam.service" \in DOMAIN opts
                         THEN opts["auth.pam.service"] ELSE "login", SystemEncoding)]

\* C8: a call whose interpreter path exists returns True exactly when the
\* worker ran _authenticate with the call's username and password, the
\* configured service and the system encoding, and pam_start,
\* pam_authenticate and pam_acct_mgmt all returned 0 there; after a start
\* fault the call returns False and the handle was ended exactly once. This
\* holds for the first call and for every later one.
C8_WorkerDecides ==
    \A c \in Callers :
        (call[c].pc \in {"returned", "raised"} /\ fs[call[c].pyexe] # "missing") =>
            /\ (call[c].pc = "returned" /\ call[c].ret) <=>
                   /\ proc[c].pc = "exited"
                   /\ proc[c].result
                   /\ proc[c].args = ExpectedArgs(call[c])
                   /\ \A fn \in {"pam_start", "pam_authenticate", "pam_acct_mgmt"} :
                          Statuses(proc[c].trace, fn) = {0}
            /\ (proc[c].trace # <<>> /\ proc[c].trace[1].status # 0) =>
                   /\ call[c].pc = "returned"
                   /\ ~call[c].ret
                   /\ Ends(proc[c].trace) = 1

\* The second call of a behaviour has returned True for the service "sshd".
C8_Witness ==
    \E c \in Callers :
        /\ ncalls = 2
        /\ call[c].pc = "returned"
        /\ call[c].ret
        /\ proc[c].result
        /\ proc[c].args.service = Encode("sshd", SystemEncoding)

\* C9: every call of authenticate ends by returning a boolean; none ends by
\* raising.
C9_NeverRaises ==
    \A c \in Callers :
        /\ call[c].pc # "raised"
        /\ call[c].pc = "returned" => call[c].ret \in BOOLEAN

\* C10 as stated: every call that has ended ran subprocess.run exactly once.
C10_ExactlyOneSpawn ==
    \A c \in Callers : call[c].pc \in {"returned", "raised"} => call[c].spawns = 1

\* C10: a call runs subprocess.run at most once: once when the resolved
\* interpreter path is on disk, never when it is not; after the worker has
\* exited, whatever its status, the call returns without a second spawn.
C10_AtMostOneSpawn ==
    \A c \in Callers :
        /\ call[c].spawns <= 1
        /\ call[c].pc # "idle" =>
               call[c].spawns = IF fs[call[c].pyexe] = "missing" THEN 0 ELSE 1
        /\ (call[c].pc = "returned" /\ proc[c].pc = "exited") => call[c].spawns = 1

\* A call has returned after its only worker exited with status 1.
C10_Witness ==
    \E c \in Callers :
        /\ call[c].pc = "returned"
        /\ proc[c].pc = "exited"
        /\ proc[c].returncode = 1
        /\ call[c].spawns = 1

\* C11: a worker that ended by its own logic ended with status 0 exactly when
\* _authenticate returned True, and with status 1 otherwise (a False result,
\* or an exception before the transaction started); every other status
\* belongs to a worker that died inside a native call.
C11_ExitZeroIffTrue ==
    \A c \in Callers :
        proc[c].pc = "exited" =>
            /\ proc[c].returncode = 0 <=> (proc[c].result /\ Ends(proc[c].trace) = 1)
            /\ (Ends(proc[c].trace) = 1 \/ proc[c].trace = <<>>) =>
                   proc[c].returncode = IF proc[c].result THEN 0 ELSE 1
            /\ proc[c].returncode \notin {0, 1} =>
                   (proc[c].trace # <<>> /\ Ends(proc[c].trace) = 0)

\* A worker has exited with status 1 after pam_authenticate failed.
C11_Witness ==
    \E c \in Callers :
        /\ proc[c].pc = "exited"
        /\ proc[c].returncode = 1
        /\ Statuses(proc[c].trace, "pam_authenticate") = {7}
        /\ Ends(proc[c].trace) = 1

\* The values a call's log records carry.
Logged(c) == UNION {ArgSet(log[c][i].args) : i \in 1..Len(log[c])}

\* What a caller can observe of its worker: whether one ran, its exit status
\* and its captured output.
WorkerOutcome(c) ==
    <<proc[c].pc, proc[c].returncode, proc[c].stdout, proc[c].stderr>>

\* C12: no record a call logs carries the call's password, and two returned
\* calls with the same username, the same worker exit status and the same
\* captured worker output (or both without a worker, the interpreter
\* missing) have logged the same records, whatever their passwords.
C12_LogIgnoresPassword ==
    /\ \A c \in Callers : call[c].pc = "returned" => call[c].password \notin Logged(c)
    /\ \A c, d \in Callers :
          (/\ call[c].pc = "returned"
           /\ call[d].pc = "returned"
           /\ call[c].username = call[d].username
           /\ WorkerOutcome(c) = WorkerOutcome(d)) => log[c] = log[d]

\* Two calls for the same user with different passwords have both returned
\* False for exit status 1 and have logged the same record.
C12_Witness ==
    \E c, d \in Callers :
        /\ call[c].pc = "returned" /\ call[d].pc = "returned"
        /\ call[c].username = call[d].username
        /\ call[c].password # call[d].password
        /\ proc[c].returncode = 1 /\ proc[d].returncode = 1
        /\ proc[c].pc = "exited" /\ proc[d].pc = "exited"
        /\ Len(log[c]) = 1
        /\ log[c] = log[d]

\* The positions of the native call fn in a trace.
Positions(trace, fn) == {i \in 1..Len(trace) : trace[i].fn = fn}

\* C13: the native calls of a run of _authenticate are ordered: pam_start is
\* the first call; pam_authenticate is the second and follows a pam_start
\* that returned 0; pam_acct_mgmt is the third and follows a
\* pam_authenticate that returned 0; pam_end is the last call and nothing
\* follows it. After a failed start neither step is called, after a failed
\* pam_authenticate pam_acct_mgmt is not called.
C13_NativeCallOrder ==
    \A c \in Callers :
        LET trace == proc[c].trace
        IN  /\ trace # <<>> => trace[1].fn = "pam_start"
            /\ Positions(trace, "pam_start") \subseteq {1}
            /\ Positions(trace, "pam_authenticate") \subseteq {2}
            /\ Positions(trace, "pam_acct_mgmt") \subseteq {3}
            /\ Positions(trace, "pam_end") \subseteq {Len(trace)}
            /\ Positions(trace, "pam_authenticate") # {} => trace[1].status = 0
            /\ Positions(trace, "pam_acct_mgmt") # {} =>
                   (trace[2].fn = "pam_authenticate" /\ trace[2].status = 0)
            /\ proc[c].pc = "finished" => trace[Len(trace)].fn = "pam_end"

\* _authenticate has returned after a failed pam_authenticate: three native
\* calls, no pam_acct_mgmt among them.
C13_Witness ==
    \E c \in Callers :
        /\ proc[c].pc = "finished"
        /\ Len(proc[c].trace) = 3
        /\ proc[c].trace[2] = NativeCall("pam_authenticate", 7)
        /\ Positions(proc[c].trace, "pam_acct_mgmt") = {}

\* C14: when _authenticate returns, the status it passed to pam_end is the
\* nonzero status of pam_start when the start failed, and 0 when the start
\* succeeded, whether pam_authenticate or pam_acct_mgmt failed or not; with
\* 0 passed to pam_end the result is still False after a failed step and
\* True after none.
C14_EndStatus ==
    \A c \in Callers :
        proc[c].pc = "finished" =>
            LET trace == proc[c].trace
                passed == trace[Len(trace)].status
                failed == {i \in 1..(Len(trace) - 1) : trace[i].status # 0}
            IN  /\ trace[Len(trace)].fn = "pam_end"
                /\ trace[1].status # 0 => (passed = trace[1].status /\ passed # 0)
                /\ trace[1].status = 0 => passed = 0
                /\ proc[c].result <=> (failed = {} /\ Len(trace) = 4)

\* _authenticate has returned False after account management failed, having
\* passed 0 to pam_end.
C14_Witness ==
    \E c \in Callers :
        /\ proc[c].pc = "finished"
        /\ ~proc[c].result
        /\ Len(proc[c].trace) = 4
        /\ proc[c].trace[3] = NativeCall("pam_acct_mgmt", 13)
        /\ proc[c].trace[4] = NativeCall("pam_end", 0)

\* C15: my_conv returns 0 for every round, whatever the number of prompts
\* and their styles, also when it filled no cell or only some.
C15_RoundSucceeds ==
    \A c \in Callers :
        (proc[c].pc = "auth" /\ proc[c].round > 0) => proc[c].conv.retval = 0

\* A round of two prompts, neither of them masked, has been answered with
\* no cell filled and status 0.
C15_Witness ==
    \E c \in Callers :
        /\ proc[c].pc = "auth"
        /\ proc[c].round > 0
        /\ proc[c].conv.messages = (0 :> PAM_TEXT_INFO @@ 1 :> PAM_PROMPT_ECHO_ON)
        /\ \A a \in DOMAIN proc[c].heap : proc[c].heap[a].kind = "array"
        /\ proc[c].conv.retval = 0

\* Whether /usr/bin/python3 is on disk, directly or through its link.
SysPythonOnDisk ==
    \/ fs[SysPython] = "file"
    \/ fs[SysPython] = "link" /\ fs[SysPythonTarget] = "file"

\* C16: the interpreter of a call is the configured override whenever one is
\* set and not empty, also when /usr/bin/python3 is on disk; without an
\* override it is /usr/bin/python3 (the file it links to) when that is on
\* disk, and sys.executable otherwise. A configured override that is not on
\* disk makes the call return False without a worker: no other interpreter
\* is tried.
C16_InterpreterPriority ==
    \A c \in Callers :
        call[c].pc # "idle" =>
            LET set == "auth.pam.python" \in DOMAIN opts /\ opts["auth.pam.python"] # ""
            IN  /\ call[c].pyexe =
                       IF set THEN opts["auth.pam.python"]
                       ELSE IF SysPythonOnDisk
                            THEN (IF fs[SysPython] = "link" THEN SysPythonTarget
                                  ELSE SysPython)
                            ELSE SysExecutable
                /\ (set /\ fs[opts["auth.pam.python"]] = "missing") =>
                       /\ call[c].pc = "returned"
                       /\ ~call[c].ret
                       /\ proc[c].pc = "none"
                /\ proc[c].pc # "none" => proc[c].argv[1] = call[c].pyexe

\* A worker runs under the configured override although /usr/bin/python3 is
\* on disk.
C16_Witness ==
    \E c \in Callers :
        /\ proc[c].pc = "boot"
        /\ SysPythonOnDisk
        /\ call[c].pyexe = OverridePython
        /\ proc[c].argv[1] = OverridePython

\* C17: authenticate returns only after its worker has exited; while the
\* worker never exits the call stays blocked (no timeout, no cancellation);
\* once the worker has exited the call eventually returns, with True for exit
\* status 0 and False for any other.
C17_BlocksUntilExit ==
    /\ [][\A c \in Callers :
            (call[c].pc = "waiting" /\ call'[c].pc # "waiting") =>
                /\ proc[c].pc = "exited"
                /\ call'[c].pc = "returned"]_vars
    /\ \A c \in Callers :
          []((call[c].pc = "waiting" /\ [](proc[c].pc # "exited"))
                => [](call[c].pc = "waiting"))
    /\ \A c \in Callers :
          (call[c].pc = "waiting" /\ proc[c].pc = "exited")
              ~> (/\ call[c].pc = "returned"
                  /\ proc[c].pc = "exited"
                  /\ call[c].ret <=> (proc[c].returncode = 0))

\* A call is blocked on a worker that is wedged inside pam_authenticate.
C17_Witness ==
    \E c \in Callers :
        /\ call[c].pc = "waiting"
        /\ proc[c].pc = "hung"

\* The envelope of caller c's worker carries caller c's own credentials.
OwnEnvelope(c) ==
    /\ proc[c].env["SALT_PAM_USERNAME"] = call[c].username
    /\ proc[c].env["SALT_PAM_PASSWORD"] = call[c].password

\* C18: with callers inside authenticate at the same time, every worker
\* carries the envelope of its own call, every call that has returned after
\* a spawn returned True exactly when its own worker exited with 0, a call
\* that enters authenticate gets a worker that has not run yet, and a step
\* of one call or worker leaves every other call and worker as it was.
C18_NoInterference ==
    /\ [](\A c \in Callers :
            /\ proc[c].pc # "none" => OwnEnvelope(c)
            /\ (call[c].pc = "returned" /\ call[c].spawns > 0) =>
                  /\ proc[c].pc = "exited"
                  /\ call[c].ret <=> (proc[c].returncode = 0))
    /\ [][\A c \in Callers :
            /\ (call[c].pc = "idle" /\ call'[c].pc = "waiting") =>
                  /\ proc'[c].pc = "boot"
                  /\ proc'[c].trace = <<>>
            /\ (call'[c] # call[c] \/ proc'[c] # proc[c]) =>
                  \A d \in Callers \ {c} :
                      /\ call'[d] = call[d]
                      /\ proc'[d] = proc[d]
                      /\ log'[d] = log[d]]_vars

\* Two calls with different usernames were inside authenticate together and
\* have returned different results, each that of its own worker.
C18_Witness ==
    /\ call[1].pc = "returned" /\ call[2].pc = "returned"
    /\ call[1].username # call[2].username
    /\ proc[1].pc = "exited" /\ proc[2].pc = "exited"
    /\ ~call[1].ret /\ call[2].ret
    /\ proc[1].returncode # 0 /\ proc[2].returncode = 0

\* The variables of the envelope.
EnvelopeKeys ==
    {"SALT_PAM_USERNAME", "SALT_PAM_PASSWORD", "SALT_PAM_SERVICE", "SALT_PAM_ENCODING"}

\* C19: whatever calls have been made and however they ended, os.environ of
\* the calling process is what it was before the first call and holds none
\* of the four envelope variables; the workers' environments hold them.
C19_EnvironUnchanged ==
    /\ environ = ("PATH" :> "/usr/bin:/bin")
    /\ EnvelopeKeys \cap DOMAIN environ = {}
    /\ \A c \in Callers : proc[c].pc # "none" => EnvelopeKeys \subseteq DOMAIN proc[c].env

\* Two calls have been made, the second has returned True, and os.environ
\* still holds no envelope variable.
C19_Witness ==
    /\ ncalls = MaxCalls
    /\ \E c \in Callers : call[c].pc = "returned" /\ call[c].ret
    /\ EnvelopeKeys \cap DOMAIN environ = {}

\* The indices of the cells of the current round that hold a duplicate.
Filled(p) ==
    {i \in DOMAIN p.heap[p.conv.p_response].cells :
        p.heap[p.conv.p_response].cells[i].resp # NULL}

\* C20: inside pam_authenticate the response array of the current round is a
\* block of its own, every cell answering a masked prompt points to a
\* buffer of its own that holds the password (no two cells share one, none
\* is the array), the blocks of a new round are all different from those of
\* the round before, allocation never hands out one block twice over the
\* rounds and slots of a conversation, and between two rounds the worker
\* leaves the blocks it handed over exactly as they were.
C20_BuffersNeverShared ==
    /\ [](\A c \in Callers :
            (proc[c].pc \in {"auth", "hung"} /\ proc[c].round > 0) =>
                LET p == proc[c]
                    cells == p.heap[p.conv.p_response].cells
                IN  /\ p.conv.p_response \in DOMAIN p.heap
                    /\ p.heap[p.conv.p_response].kind = "array"
                    /\ \A i \in Filled(p) :
                          /\ cells[i].resp \in DOMAIN p.heap
                          /\ cells[i].resp # p.conv.p_response
                          /\ p.heap[cells[i].resp].kind = "buf"
                          /\ p.heap[cells[i].resp].data = p.args.password
                          /\ \A j \in Filled(p) \ {i} : cells[j].resp # cells[i].resp
                    /\ Cardinality(DOMAIN p.heap) = 1 + Cardinality(Filled(p)))
    /\ [](\A r1, r2 \in 1..ConvRounds, i, j \in 0..(ConvPrompts - 1) :
            /\ Calloc(r1) # Strdup(r2, j)
            /\ r1 # r2 => Calloc(r1) # Calloc(r2)
            /\ <<r1, i>> # <<r2, j>> => Strdup(r1, i) # Strdup(r2, j))
    /\ [][\A c \in Callers :
            (proc[c].pc = "auth" /\ proc'[c].pc \in {"auth", "hung"}) =>
                IF proc'[c].round # proc[c].round
                THEN DOMAIN proc'[c].heap \cap DOMAIN proc[c].heap = {}
                ELSE /\ proc'[c].heap = proc[c].heap
                     /\ proc'[c].conv = proc[c].conv]_vars

\* The second round of a conversation has answered two masked prompts with
\* two buffers, next to the array of the round.
C20_Witness ==
    \E c \in Callers :
        /\ proc[c].pc = "auth"
        /\ proc[c].round = ConvRounds
        /\ Cardinality(Filled(proc[c])) >= 2
        /\ Cardinality(DOMAIN proc[c].heap) >= 3

====
